---- MODULE Spec2Model ----
(***************************************************************************)
(* Model of icedtodo (src/main.rs): the TodoApp state, its update handler  *)
(* and its key-press handler, together with the messages the iced runtime  *)
(* has in flight (results of Command::perform and widget messages).        *)
(***************************************************************************)
EXTENDS Integers, Sequences, FiniteSets, Bags, TLC

\* ---------------------------------------------------------------- bounds
MaxTodos == 2
MaxPending == 1

\* ------------------------------------------------------------- constants
\* Option::None of Option<Uuid> and Option<usize>; Some(x) is x itself.
None == -1

\* Uuid::new_v4() values. The code only ever compares ids for equality, so the
\* random values are named in the order they are drawn: 1, 2, ...
Uuids == 1..MaxTodos

DefaultTitle == "New Todo"
DefaultDescription == "New Todo Description"
\* Strings a text input can report.
Titles == {"New Todo", "Buy milk"}

Keys == {"ArrowUp", "k", "ArrowDown", "j", "i", "Escape", "Enter", "x"}

VARIABLES
    todos,           \* TodoApp.todos: Vec<Todo>
    editing_uuid,    \* TodoApp.editing_uuid: Option<Uuid>
    selected_index,  \* TodoApp.selected_index: Option<usize> (0-based)
    pending,         \* bag of messages in flight towards update
    command,         \* the Command returned by the last call of update
    status,          \* "running", "closed" (window closed) or "panicked"
    last,            \* the Message handled by the last call of update
    prev             \* editing_uuid and selected_index before that call

vars == <<todos, editing_uuid, selected_index, pending, command, status, last, prev>>

\* ---------------------------------------------------------------- values
\* enum Message, flattened to one record shape.
Message(type, event, key, uuid, txt) ==
    [type |-> type, event |-> event, key |-> key, uuid |-> uuid, text |-> txt]

NoMessage == Message("None", "", "", None, "")
ExitApp == Message("ExitApp", "", "", None, "")
AddNewTodo == Message("AddNewTodo", "", "", None, "")
TryEditCurrentItem == Message("TryEditCurrentItem", "", "", None, "")
BeginEditTodo(uuid) == Message("BeginEditTodo", "", "", uuid, "")
FinishEditTodo(uuid) == Message("FinishEditTodo", "", "", uuid, "")
TodoTextInputChanged(txt) == Message("TodoTextInputChanged", "", "", None, txt)
EventOccurred(event, key) == Message("EventOccurred", event, key, None, "")

\* iced Command values the handlers return.
CommandNone == [kind |-> "none", msg |-> NoMessage, index |-> None]
CommandPerform(m) == [kind |-> "perform", msg |-> m, index |-> None]
CommandFocus(i) == [kind |-> "focus", msg |-> NoMessage, index |-> i]
CommandClose == [kind |-> "close", msg |-> NoMessage, index |-> None]

\* Todo::new() leaving the id at its Default value instead of a new_v4().
NewTodo_default_id(uuid) ==
    [title |-> DefaultTitle, description |-> DefaultDescription,
     id |-> 0, priority |-> 0]

\* Todo::new() with the id new_v4() produced.
NewTodo(uuid) ==
    [title |-> DefaultTitle, description |-> DefaultDescription,
     id |-> uuid, priority |-> 0]

Min(a, b) == IF a < b THEN a ELSE b

\* The app state a handler works on, and what it hands back.
State(td, ed, sel, cmd, st) ==
    [todos |-> td, editing_uuid |-> ed, selected_index |-> sel,
     command |-> cmd, status |-> st]

Current == State(todos, editing_uuid, selected_index, CommandNone, status)

\* ------------------------------------------------------------ check_editing
\* check_editing ending the edit on every move, also one that stays on the item.
check_editing_always_clears(td, ed, sel) == None

\* check_editing without its reset: the edit follows the cursor.
check_editing_keeps(td, ed, sel) == ed

\* Returns the editing_uuid check_editing leaves behind.
check_editing(td, ed, sel) ==
    IF ed # None
    THEN IF sel # None
         THEN IF td[sel + 1].id # ed THEN None ELSE ed
         ELSE ed
    ELSE ed

\* ---------------------------------------------------------- handle_key_press
move_up(sel) ==
    IF sel = None THEN 0
    ELSE IF sel > 0 THEN sel - 1
    ELSE sel

\* move_down wrapping around to the first position after the last.
move_down_wraps(sel, len) ==
    IF sel = None THEN 0
    ELSE (sel + 1) % len

\* move_down without the cap at the last position.
move_down_uncapped(sel, len) ==
    IF sel = None THEN 0
    ELSE sel + 1

move_down(sel, len) ==
    IF sel = None THEN 0
    ELSE Min(sel + 1, len - 1)

\* handle_key_press whose default arm is the move-down arm.
handle_key_press_default_moves(s, key) ==
    CASE key \in {"ArrowUp", "k"} ->
            IF Len(s.todos) = 0 THEN [s EXCEPT !.command = CommandNone]
            ELSE LET sel == move_up(s.selected_index)
                 IN [s EXCEPT !.selected_index = sel,
                              !.editing_uuid = check_editing(s.todos, s.editing_uuid, sel),
                              !.command = CommandNone]
      [] key = "i" -> [s EXCEPT !.command = CommandPerform(TryEditCurrentItem)]
      [] key = "Escape" -> [s EXCEPT !.command = CommandPerform(ExitApp)]
      [] key = "Enter" ->
            IF s.editing_uuid # None
            THEN [s EXCEPT !.command = CommandPerform(FinishEditTodo(s.editing_uuid))]
            ELSE [s EXCEPT !.command = CommandPerform(AddNewTodo)]
      [] OTHER ->
            IF Len(s.todos) = 0 THEN [s EXCEPT !.command = CommandNone]
            ELSE LET sel == move_down(s.selected_index, Len(s.todos))
                 IN [s EXCEPT !.selected_index = sel,
                              !.editing_uuid = check_editing(s.todos, s.editing_uuid, sel),
                              !.command = CommandNone]

handle_key_press(s, key) ==
    CASE key \in {"ArrowUp", "k"} ->
            IF Len(s.todos) = 0 THEN [s EXCEPT !.command = CommandNone]
            ELSE LET sel == move_up(s.selected_index)
                 IN [s EXCEPT !.selected_index = sel,
                              !.editing_uuid = check_editing(s.todos, s.editing_uuid, sel),
                              !.command = CommandNone]
      [] key \in {"ArrowDown", "j"} ->
            IF Len(s.todos) = 0 THEN [s EXCEPT !.command = CommandNone]
            ELSE LET sel == move_down(s.selected_index, Len(s.todos))
                 IN [s EXCEPT !.selected_index = sel,
                              !.editing_uuid = check_editing(s.todos, s.editing_uuid, sel),
                              !.command = CommandNone]
      [] key = "i" -> [s EXCEPT !.command = CommandPerform(TryEditCurrentItem)]
      [] key = "Escape" -> [s EXCEPT !.command = CommandPerform(ExitApp)]
      [] key = "Enter" ->
            IF s.editing_uuid # None
            THEN [s EXCEPT !.command = CommandPerform(FinishEditTodo(s.editing_uuid))]
            ELSE [s EXCEPT !.command = CommandPerform(AddNewTodo)]
      [] OTHER -> [s EXCEPT !.command = CommandNone]

\* -------------------------------------------------------------------- update
\* (Message::TextInputChanged only stores its string in TodoApp.text_input and
\* no widget of view() emits it; it is left out together with that field.)
\* The title loop without its id test: every todo gets the title.
RECURSIVE set_title_of_all(_, _, _)
set_title_of_all(td, uuid, txt) ==
    IF td = <<>> THEN <<>>
    ELSE <<[Head(td) EXCEPT !.title = txt]>> \o set_title_of_all(Tail(td), uuid, txt)

\* The title loop of Message::TodoTextInputChanged: every todo whose id is
\* uuid gets the title txt.
RECURSIVE set_title(_, _, _)
set_title(td, uuid, txt) ==
    IF td = <<>> THEN <<>>
    ELSE <<IF Head(td).id = uuid THEN [Head(td) EXCEPT !.title = txt] ELSE Head(td)>>
         \o set_title(Tail(td), uuid, txt)

\* AddNewTodo that also moves the selection to the new todo.
add_new_todo_selects(s, fresh) ==
    [s EXCEPT !.todos = Append(s.todos, NewTodo(fresh)),
              !.selected_index = Len(s.todos),
              !.command = CommandNone]

\* Message::AddNewTodo; fresh is the id Uuid::new_v4() returns in Todo::new().
add_new_todo(s, fresh) ==
    [s EXCEPT !.todos = Append(s.todos, NewTodo(fresh)), !.command = CommandNone]

\* BeginEditTodo as a toggle: activating the item under edit ends the edit.
begin_edit_todo_toggles(s, uuid) ==
    [s EXCEPT !.editing_uuid = IF s.editing_uuid = uuid THEN None ELSE uuid,
              !.command = CommandNone]

\* Message::BeginEditTodo(uuid)
begin_edit_todo(s, uuid) ==
    [s EXCEPT !.editing_uuid = uuid, !.command = CommandNone]

\* FinishEditTodo that also drops the selection.
finish_edit_todo_deselects(s, uuid) ==
    [s EXCEPT !.editing_uuid = None, !.selected_index = None,
              !.command = CommandNone]

\* FinishEditTodo that forgets to leave edit mode.
finish_edit_todo_keeps(s, uuid) ==
    [s EXCEPT !.command = CommandNone]

\* Message::FinishEditTodo(uuid)
finish_edit_todo(s, uuid) ==
    [s EXCEPT !.editing_uuid = None, !.command = CommandNone]

\* TodoTextInputChanged writing to the selected todo instead of the edited one.
todo_text_input_changed_selected(s, txt) ==
    IF s.editing_uuid # None
    THEN [s EXCEPT !.todos = IF s.selected_index # None
                             THEN [s.todos EXCEPT ![s.selected_index + 1].title = txt]
                             ELSE s.todos,
                   !.command = CommandNone]
    ELSE [s EXCEPT !.status = "panicked", !.command = CommandNone]

\* Message::TodoTextInputChanged(msg)
todo_text_input_changed(s, txt) ==
    IF s.editing_uuid # None
    THEN [s EXCEPT !.todos = set_title(s.todos, s.editing_uuid, txt),
                   !.command = CommandNone]
    ELSE [s EXCEPT !.status = "panicked", !.command = CommandNone]

\* TryEditCurrentItem falling back to the first todo when nothing is selected.
try_edit_current_item_first(s) ==
    IF s.selected_index # None
    THEN [s EXCEPT !.editing_uuid = s.todos[s.selected_index + 1].id,
                   !.command = CommandFocus(s.selected_index)]
    ELSE IF Len(s.todos) > 0
    THEN [s EXCEPT !.editing_uuid = s.todos[1].id, !.command = CommandFocus(0)]
    ELSE [s EXCEPT !.command = CommandNone]

\* Message::TryEditCurrentItem
try_edit_current_item(s) ==
    IF s.selected_index # None
    THEN [s EXCEPT !.editing_uuid = s.todos[s.selected_index + 1].id,
                   !.command = CommandFocus(s.selected_index)]
    ELSE [s EXCEPT !.command = CommandNone]

\* update(message); fresh is the id Uuid::new_v4() returns if Todo::new() runs.
update(s, m, fresh) ==
    CASE m.type = "ExitApp" -> [s EXCEPT !.command = CommandClose]
      [] m.type = "EventOccurred" ->
            IF m.event = "KeyPressed" THEN handle_key_press(s, m.key)
            ELSE [s EXCEPT !.command = CommandNone]
      [] m.type = "AddNewTodo" -> add_new_todo(s, fresh)
      [] m.type = "BeginEditTodo" -> begin_edit_todo(s, m.uuid)
      [] m.type = "FinishEditTodo" -> finish_edit_todo(s, m.uuid)
      [] m.type = "TodoTextInputChanged" -> todo_text_input_changed(s, m.text)
      [] m.type = "TryEditCurrentItem" -> try_edit_current_item(s)

\* ------------------------------------------------------------------- runtime
\* The runtime executes the Command update returned: a performed future
\* delivers its message later, window::close ends the application.
Executed(s, pend) ==
    [pending |-> IF s.command.kind = "perform" THEN pend (+) SetToBag({s.command.msg}) ELSE pend,
     status |-> IF s.command.kind = "close" /\ s.status = "running" THEN "closed" ELSE s.status]

\* One call of update with message m, with pend the other messages in flight.
Step(m, fresh, pend) ==
    LET s == update(Current, m, fresh)
        r == Executed(s, pend)
    IN /\ status = "running"
       /\ BagCardinality(r.pending) <= MaxPending
       /\ Len(s.todos) <= MaxTodos
       /\ todos' = s.todos
       /\ editing_uuid' = s.editing_uuid
       /\ selected_index' = s.selected_index
       /\ command' = s.command
       /\ pending' = r.pending
       /\ status' = r.status
       /\ last' = m
       /\ prev' = [editing_uuid |-> editing_uuid, selected_index |-> selected_index]

\* Uuid::new_v4(): the value the next call returns, one no todo has yet.
new_v4 == Len(todos) + 1

\* subscription(): event::listen() hands a key press to update.
KeyPressed(key) == Step(EventOccurred("KeyPressed", key), new_v4, pending)

\* subscription(): any other event (mouse, key release, window).
OtherEvent(event) == Step(EventOccurred(event, ""), new_v4, pending)

\* view(): the button of the todo at position i (0-based) is pressed.
PressTodo(i) == Step(BeginEditTodo(todos[i + 1].id), new_v4, pending)

\* view(): the "+" button is pressed.
PressNewTodo == Step(AddNewTodo, new_v4, pending)

\* view(): the text input exists for the todo whose id is editing_uuid.
TextInputShown == \E i \in 1..Len(todos) : editing_uuid # None /\ todos[i].id = editing_uuid

\* view(): the text input reports new contents (on_input); update sees it later.
TextInputEdited(txt) ==
    /\ status = "running"
    /\ TextInputShown
    /\ BagCardinality(pending) < MaxPending
    /\ pending' = pending (+) SetToBag({TodoTextInputChanged(txt)})
    /\ UNCHANGED <<todos, editing_uuid, selected_index, command, status, last, prev>>

\* view(): the text input is submitted (on_submit); update sees it later.
TextInputSubmitted ==
    /\ status = "running"
    /\ TextInputShown
    /\ BagCardinality(pending) < MaxPending
    /\ pending' = pending (+) SetToBag({FinishEditTodo(editing_uuid)})
    /\ UNCHANGED <<todos, editing_uuid, selected_index, command, status, last, prev>>

\* The runtime delivers a message in flight to update.
Deliver(m) ==
    /\ m \in BagToSet(pending)
    /\ Step(m, new_v4, pending (-) SetToBag({m}))

Init ==
    /\ todos = <<>>
    /\ editing_uuid = None
    /\ selected_index = None
    /\ pending = EmptyBag
    /\ command = CommandNone
    /\ status = "running"
    /\ last = NoMessage
    /\ prev = [editing_uuid |-> None, selected_index |-> None]

Next ==
    \/ \E key \in Keys : KeyPressed(key)
    \/ \E event \in {"Mouse", "KeyReleased", "Window"} : OtherEvent(event)
    \/ \E i \in 0..(Len(todos) - 1) : PressTodo(i)
    \/ PressNewTodo
    \/ \E txt \in Titles : TextInputEdited(txt)
    \/ TextInputSubmitted
    \/ \E m \in BagToSet(pending) : Deliver(m)

Spec == Init /\ [][Next]_vars

\* ==================================================================== claims
MoveUpKeys == {"ArrowUp", "k"}
MoveDownKeys == {"ArrowDown", "j"}
Positions == 0..(Len(todos) - 1)

\* C1: in every reachable state, if an editing id is present then a selection
\* is present and the item at the selected position has exactly that id.
C1_EditingFollowsSelection ==
    editing_uuid # None =>
        /\ selected_index # None
        /\ todos[selected_index + 1].id = editing_uuid

\* C2: in every reachable state, a present selected position p satisfies
\* 0 <= p < number of items in the store.
C2_SelectionInRange ==
    selected_index # None => (0 <= selected_index /\ selected_index < Len(todos))

\* A move-down was just handled at the last position and stayed there.
C2_Witness ==
    /\ last.type = "EventOccurred" /\ last.key \in MoveDownKeys
    /\ Len(todos) >= 2
    /\ prev.selected_index = Len(todos) - 1
    /\ selected_index = Len(todos) - 1

\* C3: a text change handled while no item is under edit does not abort the
\* session and leaves items, selection and editing id unchanged.
C3_TextChangeWhileIdleIsHarmless ==
    [][\A txt \in Titles :
        (editing_uuid = None /\ Deliver(TodoTextInputChanged(txt))) =>
            (status' = "running" /\ UNCHANGED <<todos, selected_index, editing_uuid>>)]_vars

\* C4: in Editing(id) with the selection at p, where position p+1 exists and
\* holds a different id, a move-down gives Idle with the selection at p+1 and
\* leaves the title of the item at p as it was.
C4_MoveDownLeavesEditMode ==
    [][\A key \in MoveDownKeys :
        (/\ KeyPressed(key)
         /\ editing_uuid # None
         /\ selected_index # None
         /\ selected_index + 2 <= Len(todos)
         /\ todos[selected_index + 2].id # editing_uuid)
        => (/\ editing_uuid' = None
            /\ selected_index' = selected_index + 1
            /\ todos'[selected_index + 1].title = todos[selected_index + 1].title)]_vars

\* A move-down was just handled while the item at the selection was edited.
C4_Witness ==
    /\ last.type = "EventOccurred" /\ last.key \in MoveDownKeys
    /\ prev.editing_uuid # None
    /\ prev.selected_index # None
    /\ todos[prev.selected_index + 1].id = prev.editing_uuid
    /\ todos[prev.selected_index + 1].title = "Buy milk"
    /\ selected_index = prev.selected_index + 1
    /\ editing_uuid = None

\* C5: in Editing(id), a text T reported by the edit field becomes the title
\* of the item whose id is id and of no other item, and the commit that
\* follows ends in Idle without changing any title.
C5_CommitWritesOnlyEditedTitle ==
    [][editing_uuid # None =>
        /\ \A txt \in Titles :
             Deliver(TodoTextInputChanged(txt)) =>
                /\ editing_uuid' = editing_uuid
                /\ Len(todos') = Len(todos)
                /\ \A i \in 1..Len(todos) :
                     /\ todos'[i].id = todos[i].id
                     /\ todos'[i].title =
                          IF todos[i].id = editing_uuid THEN txt ELSE todos[i].title
        /\ \A uuid \in Uuids :
             Deliver(FinishEditTodo(uuid)) =>
                /\ editing_uuid' = None
                /\ todos' = todos]_vars

\* A commit was just handled for an item that now reads "Buy milk" while
\* another item still carries the default title.
C5_Witness ==
    /\ last.type = "FinishEditTodo"
    /\ prev.editing_uuid # None
    /\ editing_uuid = None
    /\ \E i, j \in 1..Len(todos) :
         /\ todos[i].id = prev.editing_uuid
         /\ todos[i].title = "Buy milk"
         /\ j # i
         /\ todos[j].title = DefaultTitle

\* C6: the effect of an Enter press is chosen by the edit mode in force when
\* the effect is applied: applied in Editing it ends the edit and appends
\* nothing, applied in Idle it appends exactly one item and starts no edit.
C6_EnterChoiceMadeAtApplication ==
    [][\A m \in {AddNewTodo} \cup {FinishEditTodo(uuid) : uuid \in Uuids} :
        Deliver(m) =>
            IF editing_uuid # None
            THEN editing_uuid' = None /\ todos' = todos
            ELSE editing_uuid' = None /\ Len(todos') = Len(todos) + 1]_vars

\* C7: while the state change caused by an 'i', Enter or Escape press is still
\* outstanding, no other key press or pointer activation is processed.
KeyCausedTypes == {"TryEditCurrentItem", "ExitApp", "AddNewTodo", "FinishEditTodo"}

C7_KeyEffectBeforeNextEvent ==
    [][(\E m \in BagToSet(pending) : m.type \in KeyCausedTypes) =>
        ~ \/ \E key \in Keys : KeyPressed(key)
          \/ \E i \in Positions : PressTodo(i)]_vars

\* C8 (as stated): in Editing(id), a pointer activation of the item whose id
\* is id commits the edit, leaving the editing id absent.
C8_ReactivationCommits ==
    [][\A i \in Positions :
        (PressTodo(i) /\ editing_uuid = todos[i + 1].id) => editing_uuid' = None]_vars

\* C8 (amended): in Editing(id), a pointer activation of the item whose id is
\* id leaves the state Editing(id), with items and selection unchanged.
C8_ReactivationKeepsEditing ==
    [][\A i \in Positions :
        (PressTodo(i) /\ editing_uuid = todos[i + 1].id) =>
            /\ editing_uuid' = editing_uuid
            /\ UNCHANGED <<todos, selected_index>>]_vars

\* The item under edit was just activated by the pointer.
C8_Witness ==
    /\ last.type = "BeginEditTodo"
    /\ prev.editing_uuid = last.uuid
    /\ editing_uuid = last.uuid

\* C9: every transition from Idle to Editing(id) emits, in that transition, a
\* focus directive for the edit field of the selected position.
C9_EnteringEditRequestsFocus ==
    [][(editing_uuid = None /\ editing_uuid' # None) =>
        (selected_index' # None /\ command' = CommandFocus(selected_index'))]_vars

\* C10: a move-up handled with the selection at position 0, or with an empty
\* store and no selection, leaves items, selection and editing id unchanged.
C10_MoveUpAtTopChangesNothing ==
    [][\A key \in MoveUpKeys :
        (/\ KeyPressed(key)
         /\ \/ selected_index = 0
            \/ (Len(todos) = 0 /\ selected_index = None))
        => UNCHANGED <<todos, selected_index, editing_uuid>>]_vars

\* C11 (as stated): a move-down from the last position stays there; a move on
\* an empty store leaves the selection absent; a move on a non-empty store with
\* no selection selects position 0; every other move changes the selection by
\* exactly one position.
C11_MovesStepByOne ==
    [][\A key \in MoveUpKeys \cup MoveDownKeys :
        KeyPressed(key) =>
            IF Len(todos) = 0 THEN selected_index' = None
            ELSE IF selected_index = None THEN selected_index' = 0
            ELSE IF key \in MoveDownKeys /\ selected_index = Len(todos) - 1
                 THEN selected_index' = Len(todos) - 1
            ELSE /\ selected_index' # None
                 /\ selected_index' = selected_index + (IF key \in MoveDownKeys THEN 1 ELSE -1)]_vars

\* C11 (amended): as above, and a move-up from position 0 leaves the selection
\* at position 0; only the remaining moves change it by exactly one position.
C11_MovesStepByOneOrStay ==
    [][\A key \in MoveUpKeys \cup MoveDownKeys :
        KeyPressed(key) =>
            IF Len(todos) = 0 THEN selected_index' = None
            ELSE IF selected_index = None THEN selected_index' = 0
            ELSE IF key \in MoveDownKeys /\ selected_index = Len(todos) - 1
                 THEN selected_index' = Len(todos) - 1
            ELSE IF key \in MoveUpKeys /\ selected_index = 0
                 THEN selected_index' = 0
            ELSE /\ selected_index' # None
                 /\ selected_index' = selected_index + (IF key \in MoveDownKeys THEN 1 ELSE -1)]_vars

\* A move-up was just handled at position 0 of a store with two items and the
\* selection stayed at 0.
C11_Witness ==
    /\ last.type = "EventOccurred" /\ last.key \in MoveUpKeys
    /\ Len(todos) >= 2
    /\ prev.selected_index = 0
    /\ selected_index = 0

C13_AppendOnlyAppends ==
    [][(PressNewTodo \/ Deliver(AddNewTodo)) =>
        /\ Len(todos') = Len(todos) + 1
        /\ todos'[Len(todos) + 1].title = "New Todo"
        /\ SubSeq(todos', 1, Len(todos)) = todos
        /\ UNCHANGED <<selected_index, editing_uuid>>]_vars

\* A second item was just appended and still nothing is selected.
C13_Witness ==
    /\ last.type = "AddNewTodo"
    /\ Len(todos) = 2
    /\ todos[1].title = DefaultTitle /\ todos[2].title = DefaultTitle
    /\ todos[1].id # todos[2].id
    /\ selected_index = None

\* C14: no two items in the store share an id, and no step changes the id of
\* an item that already exists.
C14_IdsUniqueAndStable ==
    [][/\ \A i, j \in 1..Len(todos') : todos'[i].id = todos'[j].id => i = j
       /\ Len(todos') >= Len(todos)
       /\ \A i \in 1..Len(todos) : todos'[i].id = todos[i].id]_vars

\* Two items exist and the title of one of them has been edited.
C14_Witness ==
    /\ Len(todos) = 2
    /\ todos[1].id # todos[2].id
    /\ last.type = "TodoTextInputChanged"
    /\ \E i \in 1..2 : todos[i].title = "Buy milk"

\* C15: beginning an edit changes no item, a text equal to the title the
\* edited item already has changes no item, and the commit changes no item
\* and ends in Idle: the store is the same as before the edit.
C15_SameTextRoundTrip ==
    [][/\ Deliver(TryEditCurrentItem) => todos' = todos
       /\ \A txt \in Titles :
            (/\ Deliver(TodoTextInputChanged(txt))
             /\ editing_uuid # None
             /\ \A i \in 1..Len(todos) : todos[i].id = editing_uuid => todos[i].title = txt)
            => (todos' = todos /\ editing_uuid' = editing_uuid)
       /\ \A uuid \in Uuids :
            Deliver(FinishEditTodo(uuid)) => (todos' = todos /\ editing_uuid' = None)]_vars

\* An edit of the selected item, which reads "New Todo" as at creation, was
\* just committed.
C15_Witness ==
    /\ last.type = "FinishEditTodo"
    /\ prev.editing_uuid # None
    /\ prev.selected_index # None
    /\ todos[prev.selected_index + 1].id = prev.editing_uuid
    /\ last.uuid = prev.editing_uuid
    /\ \A i \in 1..Len(todos) : todos[i].title = DefaultTitle
    /\ Len(todos) = 2
    /\ editing_uuid = None

\* C16: in every step that changes an item's title, the editing id is present
\* before the step and the item is the one with that id.
C16_TitleChangesOnlyUnderEdit ==
    [][\A i \in 1..Len(todos) :
        todos'[i].title # todos[i].title =>
            (editing_uuid # None /\ todos[i].id = editing_uuid)]_vars

\* A text change was just written to the edited item while another item is
\* selected.
C16_Witness ==
    /\ last.type = "TodoTextInputChanged"
    /\ status = "running"
    /\ selected_index # None
    /\ todos[selected_index + 1].id # editing_uuid
    /\ todos[selected_index + 1].title = DefaultTitle
    /\ \E i \in 1..Len(todos) : todos[i].id = editing_uuid /\ todos[i].title = "Buy milk"

\* C17: a key press other than Up/k, Down/j, i, Enter and Escape, and a mouse
\* event, leave items, selection and editing id unchanged and emit no directive.
IgnoredKeys == Keys \ (MoveUpKeys \cup MoveDownKeys \cup {"i", "Enter", "Escape"})

C17_OtherInputIgnored ==
    [][((\E key \in IgnoredKeys : KeyPressed(key)) \/ OtherEvent("Mouse")) =>
        /\ UNCHANGED <<todos, selected_index, editing_uuid, pending, status>>
        /\ command' = CommandNone]_vars

\* An unbound key was just pressed during an edit of the selected item.
C17_Witness ==
    /\ last.type = "EventOccurred" /\ last.key \in IgnoredKeys
    /\ selected_index = 0
    /\ Len(todos) = 2
    /\ editing_uuid = todos[1].id
    /\ command = CommandNone

\* C18: right after a move-up or move-down on a non-empty store the selection
\* is present and the editing id is absent or the id of the item at the new
\* position; a move that leaves the selection on the edited item keeps the edit.
C18_MoveRepairsEditMode ==
    [][\A key \in MoveUpKeys \cup MoveDownKeys :
        (KeyPressed(key) /\ Len(todos) > 0) =>
            /\ selected_index' # None
            /\ editing_uuid' = None \/ editing_uuid' = todos'[selected_index' + 1].id
            /\ (editing_uuid # None /\ todos[selected_index' + 1].id = editing_uuid)
                    => editing_uuid' = editing_uuid]_vars

\* A move was just handled from a state that edited an item with nothing
\* selected, and it landed on the item under edit, which is still edited.
C18_Witness ==
    /\ last.type = "EventOccurred" /\ last.key \in MoveUpKeys \cup MoveDownKeys
    /\ prev.editing_uuid # None
    /\ prev.selected_index = None
    /\ selected_index = 0
    /\ editing_uuid = prev.editing_uuid
    /\ todos[1].id = editing_uuid

\* C19: a FinishEditTodo(A) handled while a different item B is under edit
\* does not end the edit of B.
C19_CommitEndsOnlyItsOwnEdit ==
    [][\A uuid \in Uuids :
        (Deliver(FinishEditTodo(uuid)) /\ editing_uuid # None /\ editing_uuid # uuid)
            => editing_uuid' = editing_uuid]_vars

\* C20: no step takes the selected position from present to absent, and no
\* step makes the store shorter.
C20_SelectionAndStoreNeverShrink ==
    [][/\ selected_index # None => selected_index' # None
       /\ Len(todos') >= Len(todos)]_vars

\* An edit of the selected item was just committed and the selection is
\* still there.
C20_Witness ==
    /\ last.type = "FinishEditTodo"
    /\ prev.selected_index # None
    /\ selected_index = prev.selected_index
    /\ prev.editing_uuid # None
    /\ Len(todos) = 2

====
